---------------------------- MODULE Spec2Model ----------------------------
(***************************************************************************)
(* Token-refresh coordination of the FASI API client (src/app/lib/api.ts)  *)
(* and the local logout of src/app/lib/authApi.ts.                         *)
(*                                                                         *)
(* Every await of the source is a suspension point: a call is at one pc    *)
(* between two awaits, and an action is the synchronous code that runs     *)
(* from one await to the next.  The server's answers (status codes,        *)
(* transport failures) are the inputs.                                     *)
(*                                                                         *)
(* Further specifications over the same variables: SpecLogout (a logout    *)
(* beside the calls), SpecMsg (error classification), SpecQuery (query     *)
(* strings of dataApi.ts and transactionsApi.ts), SpecHeaders (request     *)
(* headers), SpecLogin (AuthProvider.login) and SpecHook (useAsync of      *)
(* permissions.ts).  Each leaves the variables of the others alone.        *)
(***************************************************************************)
EXTENDS Naturals, Sequences, FiniteSets

\* Number of apiFetch calls of one page session.
NumCalls == 3

Calls == 1..NumCalls

\* localStorage.getItem of a missing key (null).
NoToken == 0

\* The access token and the refresh token a login stored.
InitAccess == 1
InitRefresh == 1

\* Status codes the server answers with: ok with a body, ok without a body,
\* unauthorized, server error.
Statuses == {200, 204, 401, 500}

VARIABLES
    storage,        \* localStorage: [access, refresh, user]
    isRefreshing,   \* module flag of api.ts
    refreshQueue,   \* module array of resolvers, one per suspended call
    pc,             \* pc[c]: where call c is suspended
    skipAuth,       \* skipAuth[c]: the option the call was made with
    sent,           \* sent[c]: Authorization token of each send of c (NoToken: no header)
    resp,           \* resp[c]: status of each response c received
    newToken,       \* newToken[c]: the token the call's await yielded (NoToken: none yet)
    isLeader,       \* isLeader[c]: c is inside the try block of lines 93-100
    joined,         \* history: joined[c] is the cycle c's 401 started or was queued in
    result,         \* result[c]: how the call ended
    issued,         \* number of access tokens the refresh endpoint has issued
    cycles,         \* history: one record per Idle->Refreshing transition
    logout,         \* authApi.logout: "idle", "posting", or how it ended
    errResp,        \* a non-ok response as line 104 sees it: [status, statusText, body]
    apiError,       \* the ApiError line 107 throws for errResp
    query,          \* a query-string builder's argument and what it returned
    request,        \* the headers apiFetch builds for one request (lines 66-80, 89, 96)
    auth,           \* AuthProvider: position of login, isLoading, user, result
    hook            \* one useAsync instance: mountedRef, data, error, loading, fetches

vars == <<storage, isRefreshing, refreshQueue, pc, skipAuth, sent, resp, newToken,
          isLeader, joined, result, issued, cycles, logout, errResp, apiError, query,
          request, auth, hook>>

EmptyStore == [access |-> NoToken, refresh |-> NoToken, user |-> FALSE]

LoggedIn == [access |-> InitAccess, refresh |-> InitRefresh, user |-> TRUE]

\* No response under classification, and no error thrown for it.
NoResponse == [status |-> 0, statusText |-> <<>>, body |-> [t |-> "none", s |-> <<>>, f |-> <<>>]]

NoError == [kind |-> "none", status |-> 0, message |-> <<>>]

\* No query-string builder called.
NoQuery ==
    [given |-> FALSE, f |-> <<>>, builder |-> "none",
     out |-> [mark |-> FALSE, pairs |-> <<>>]]

\* A header that is not set.
NoHeader == [text |-> "", token |-> 0]

HeaderKeys == {"Content-Type", "Authorization", "X-Trace"}

\* No headers under construction.
NoRequest ==
    [stage |-> "none", sk |-> FALSE, opts |-> [h \in HeaderKeys |-> NoHeader],
     headers |-> [h \in HeaderKeys |-> NoHeader], wire |-> <<>>]

\* AuthProvider before login is called (transactionsApi.ts lines 329-336).
NoAuth ==
    [pc |-> "idle", isLoading |-> FALSE, user |-> "none", success |-> FALSE,
     message |-> "", failed |-> "none", calls |-> 0]

\* A useAsync instance before its first effect (permissions.ts lines 88-91).
NoHook ==
    [mounted |-> TRUE, data |-> 0, error |-> 0, loading |-> TRUE, fetches |-> <<>>,
     unmounted |-> FALSE]

NoResult == [kind |-> "none", status |-> 0]

\* A clear that leaves the refresh token.
TokenClearAccessOnly(st) == [st EXCEPT !.access = NoToken, !.user = FALSE]

\* TokenStorage.clear
TokenClear(st) == EmptyStore

\* Both stored tokens overwritten with the new one.
TokenSetAccessBoth(st, tok) == [st EXCEPT !.access = tok, !.refresh = tok]

\* TokenStorage.setAccess
TokenSetAccess(st, tok) == [st EXCEPT !.access = tok]

\* response.ok
IsOk(status) == status >= 200 /\ status <= 299

\* The body parsed without the response.ok check.
OutcomeUnchecked(status) ==
    IF status = 204 THEN [kind |-> "null", status |-> status]
    ELSE [kind |-> "json", status |-> status]

\* The body of every ok response parsed, the 204 test of line 111 left out.
OutcomeParsesEmpty(status) ==
    IF ~IsOk(status) THEN [kind |-> "ApiError", status |-> status]
    ELSE [kind |-> "json", status |-> status]

\* Lines 104-113: what apiFetch yields for the response it ends with.
Outcome(status) ==
    IF ~IsOk(status) THEN [kind |-> "ApiError", status |-> status]
    ELSE IF status = 204 THEN [kind |-> "null", status |-> status]
    ELSE [kind |-> "json", status |-> status]

\* The record of a cycle that starts now, led by c.
NewCycle(c) ==
    [leader |-> c, hadRefresh |-> storage.refresh # NoToken, posts |-> 0,
     clears |-> 0, redirects |-> 0, outcome |-> "pending", token |-> NoToken,
     stored |-> NoToken, waiters |-> {}, released |-> {}, ended |-> FALSE]

Cur == Len(cycles)

Init ==
    /\ storage \in {LoggedIn, EmptyStore}
    /\ isRefreshing = FALSE
    /\ refreshQueue = <<>>
    /\ pc = [c \in Calls |-> "init"]
    /\ skipAuth = [c \in Calls |-> FALSE]
    /\ sent = [c \in Calls |-> <<>>]
    /\ resp = [c \in Calls |-> <<>>]
    /\ newToken = [c \in Calls |-> NoToken]
    /\ isLeader = [c \in Calls |-> FALSE]
    /\ joined = [c \in Calls |-> 0]
    /\ result = [c \in Calls |-> NoResult]
    /\ issued = 0
    /\ cycles = <<>>
    /\ logout = "idle"
    /\ errResp = NoResponse
    /\ apiError = NoError
    /\ query = NoQuery
    /\ request = NoRequest
    /\ auth = NoAuth
    /\ hook = NoHook

\* Lines 66-80: build the headers and send the request.  Calls are numbered
\* in the order they are made.
Call(c, sk) ==
    /\ pc[c] = "init"
    /\ \A d \in Calls : d < c => pc[d] # "init"
    /\ skipAuth' = [skipAuth EXCEPT ![c] = sk]
    /\ sent' = [sent EXCEPT ![c] = <<IF sk THEN NoToken ELSE storage.access>>]
    /\ pc' = [pc EXCEPT ![c] = "fetch1"]
    /\ UNCHANGED <<storage, isRefreshing, refreshQueue, resp, newToken, isLeader,
                   result, joined, issued, cycles, logout, errResp, apiError, query, request,
                   auth, hook>>

\* The call ends with the response it holds (lines 104-113).
Finish(c, status) ==
    /\ resp' = [resp EXCEPT ![c] = Append(@, status)]
    /\ pc' = [pc EXCEPT ![c] = "done"]
    /\ result' = [result EXCEPT ![c] = Outcome(status)]

\* The flag read before the response arrived: a check that is not atomic
\* with the set of line 92.
RefreshingStale == FALSE

\* The flag left as it was.
ClaimFlagForgotten == isRefreshing

\* Line 92: the value the leader gives the flag.
ClaimFlag == TRUE

\* Line 84: the flag as the call reads it when its 401 arrives.
Refreshing == isRefreshing

\* The flag left set when the leader leaves.
ResetFlagForgotten == isRefreshing

\* Line 99: the value finally gives the flag.
ResetFlag == FALSE

\* The refresh logic entered whatever skipAuth says.
Handles401Always(c) == TRUE

\* Line 83, second conjunct: the call takes part in the refresh logic.
Handles401(c) == ~skipAuth[c]

\* Every error status taken for an expired token.
IsUnauthorizedAnyError(status) == status >= 400

\* Line 83, first conjunct: response.status === 401.
IsUnauthorized(status) == status = 401

\* No check of the refresh token before the POST.
HasRefreshTokenUnchecked(st) == TRUE

\* Line 41: whether refreshAccessToken finds a refresh token.
HasRefreshToken(st) == st.refresh # NoToken

\* The resolver called with the token the call was first sent with.
ResolvedTokenStale(c, tok) == sent[c][1]

\* Line 35: the value a queued resolver is called with.
ResolvedToken(c, tok) == tok

\* The redirect made only when some call is queued.
SessionTerminatedIfWaiters(cy) ==
    IF refreshQueue = <<>> THEN cy ELSE [cy EXCEPT !.redirects = @ + 1]

\* Line 51: window.location.href = '/login'.
SessionTerminated(cy) == [cy EXCEPT !.redirects = @ + 1]

\* The access token the refresh endpoint answers with: a fresh one each time.
IssuedToken(n) == InitAccess + n

\* Elements of a sequence.
Range(q) == {q[i] : i \in DOMAIN q}

\* The first response is not a 401, or the call skips auth: lines 83, 104-113.
Respond1(c, status) ==
    /\ pc[c] = "fetch1"
    /\ ~(IsUnauthorized(status) /\ Handles401(c))
    /\ Finish(c, status)
    /\ UNCHANGED <<storage, isRefreshing, refreshQueue, skipAuth, sent, newToken,
                   isLeader, joined, issued, cycles, logout, errResp, apiError, query,
                   request, auth, hook>>

\* Lines 84-88: a 401 while a refresh is in flight; the call suspends on a
\* promise whose resolver it pushes.
JoinQueue(c, status) ==
    /\ pc[c] = "fetch1"
    /\ IsUnauthorized(status) /\ Handles401(c)
    /\ Refreshing
    /\ refreshQueue' = Append(refreshQueue, c)
    /\ pc' = [pc EXCEPT ![c] = "queued"]
    /\ resp' = [resp EXCEPT ![c] = Append(@, status)]
    /\ joined' = [joined EXCEPT ![c] = Cur]
    /\ UNCHANGED <<storage, isRefreshing, skipAuth, sent, newToken, isLeader,
                   result, issued, cycles, logout, errResp, apiError, query, request, auth,
                   hook>>

\* Lines 91-94 and 40-47: a 401 while no refresh is in flight; the call sets
\* the flag and runs refreshAccessToken up to its first await.
BecomeLeader(c, status) ==
    /\ pc[c] = "fetch1"
    /\ IsUnauthorized(status) /\ Handles401(c)
    /\ ~Refreshing
    /\ isRefreshing' = ClaimFlag
    /\ isLeader' = [isLeader EXCEPT ![c] = TRUE]
    /\ LET started == IF isRefreshing THEN cycles ELSE Append(cycles, NewCycle(c))
           k == Len(started)
       IN /\ joined' = [joined EXCEPT ![c] = k]
          /\ IF HasRefreshToken(storage)
             THEN /\ cycles' = [started EXCEPT ![k].posts = @ + 1]
                  /\ pc' = [pc EXCEPT ![c] = "refreshing"]
             ELSE /\ cycles' = [started EXCEPT ![k].outcome = "noToken",
                                               ![k].waiters = Range(refreshQueue)]
                  /\ pc' = [pc EXCEPT ![c] = "threwNoToken"]
    /\ resp' = [resp EXCEPT ![c] = Append(@, status)]
    /\ UNCHANGED <<storage, refreshQueue, skipAuth, sent, newToken, result,
                   issued, logout, errResp, apiError, query, request, auth, hook>>

\* Lines 43-55: the refresh endpoint answers ok; data.access is the new token.
RefreshOk(c) ==
    /\ pc[c] = "refreshing"
    /\ issued' = issued + 1
    /\ newToken' = [newToken EXCEPT ![c] = IssuedToken(issued')]
    /\ cycles' = [cycles EXCEPT ![Cur].token = IssuedToken(issued')]
    /\ pc' = [pc EXCEPT ![c] = "refreshBody"]
    /\ UNCHANGED <<storage, isRefreshing, refreshQueue, skipAuth, sent, resp, isLeader,
                   joined, result, logout, errResp, apiError, query, request, auth, hook>>

\* Lines 55-57: the body is read, the token stored and returned.
RefreshBody(c) ==
    /\ pc[c] = "refreshBody"
    /\ storage' = TokenSetAccess(storage, newToken[c])
    /\ cycles' = [cycles EXCEPT ![Cur].stored = storage'.access,
                                ![Cur].outcome = "ok",
                                ![Cur].waiters = Range(refreshQueue)]
    /\ pc' = [pc EXCEPT ![c] = "refreshed"]
    /\ UNCHANGED <<isRefreshing, refreshQueue, skipAuth, sent, resp, newToken, isLeader,
                   result, joined, issued, logout, errResp, apiError, query, request, auth,
                   hook>>

\* Lines 49-53: the refresh endpoint answers with a non-success status.
RefreshReject(c) ==
    /\ pc[c] = "refreshing"
    /\ storage' = TokenClear(storage)
    /\ cycles' = [cycles EXCEPT ![Cur] =
                     SessionTerminated([@ EXCEPT !.clears = @ + 1,
                                                 !.outcome = "rejected",
                                                 !.waiters = Range(refreshQueue)])]
    /\ pc' = [pc EXCEPT ![c] = "threwExpired"]
    /\ UNCHANGED <<isRefreshing, refreshQueue, skipAuth, sent, resp, newToken, isLeader,
                   result, joined, issued, logout, errResp, apiError, query, request, auth,
                   hook>>

\* A transport failure handled like a refused refresh: the store cleared.
StoreAfterNetFailCleared(st) == TokenClear(st)

\* Lines 43-47: the rejection of fetch leaves refreshAccessToken before
\* line 49; the store is not touched.
StoreAfterNetFail(st) == st

\* Line 43: the fetch of the refresh endpoint rejects (no response).
RefreshNetFail(c) ==
    /\ pc[c] = "refreshing"
    /\ storage' = StoreAfterNetFail(storage)
    /\ cycles' = [cycles EXCEPT ![Cur].outcome = "transport",
                                ![Cur].waiters = Range(refreshQueue)]
    /\ pc' = [pc EXCEPT ![c] = "threwNetwork"]
    /\ UNCHANGED <<isRefreshing, refreshQueue, skipAuth, sent, resp, newToken, isLeader,
                   result, joined, issued, logout, errResp, apiError, query, request, auth,
                   hook>>

\* The error refreshAccessToken threw, as the leader's call rejects with it.
Thrown(p) ==
    IF p = "threwNoToken" THEN [kind |-> "ErrorNoRefreshToken", status |-> 0]
    ELSE IF p = "threwExpired" THEN [kind |-> "ErrorSessionExpired", status |-> 0]
    ELSE [kind |-> "TypeError", status |-> 0]

\* Lines 94, 98-100: the await of refreshAccessToken throws; finally resets
\* the flag and the call rejects.
LeaderFinally(c) ==
    /\ pc[c] \in {"threwNoToken", "threwExpired", "threwNetwork"}
    /\ isRefreshing' = ResetFlag
    /\ isLeader' = [isLeader EXCEPT ![c] = FALSE]
    /\ cycles' = [cycles EXCEPT ![Cur].ended = TRUE]
    /\ pc' = [pc EXCEPT ![c] = "done"]
    /\ result' = [result EXCEPT ![c] = Thrown(pc[c])]
    /\ UNCHANGED <<storage, refreshQueue, skipAuth, sent, resp, newToken, joined, issued,
                   logout, errResp, apiError, query, request, auth, hook>>

\* The retry sent with the header the first send carried.
RetryTokenOriginal(c) == sent[c][1]

\* Lines 89 and 96: the token the retry's Authorization header carries.
RetryToken(c) == newToken[c]

\* Lines 94-97 and 34-37: the leader resumes with the token, calls every
\* queued resolver, empties the queue and resends its request.
LeaderResume(c) ==
    /\ pc[c] = "refreshed"
    /\ newToken' = [d \in Calls |->
                       IF d \in Range(refreshQueue)
                       THEN ResolvedToken(d, newToken[c]) ELSE newToken[d]]
    /\ refreshQueue' = <<>>
    /\ sent' = [sent EXCEPT ![c] = Append(@, RetryToken(c))]
    /\ pc' = [d \in Calls |->
                 IF d = c THEN "fetch2"
                 ELSE IF d \in Range(refreshQueue) THEN "resolved" ELSE pc[d]]
    /\ cycles' = [cycles EXCEPT ![Cur].released = Range(refreshQueue) \cup {c}]
    /\ UNCHANGED <<storage, isRefreshing, skipAuth, resp, isLeader, result, joined, issued,
                   logout, errResp, apiError, query, request, auth, hook>>

\* Lines 89-90: a released waiter resumes and resends its request.
WaiterResume(c) ==
    /\ pc[c] = "resolved"
    /\ sent' = [sent EXCEPT ![c] = Append(@, RetryToken(c))]
    /\ pc' = [pc EXCEPT ![c] = "fetch2"]
    /\ UNCHANGED <<storage, isRefreshing, refreshQueue, skipAuth, resp, newToken,
                   isLeader, result, joined, issued, cycles, logout, errResp, apiError,
                   query, request, auth, hook>>

\* Lines 98-100: the leader leaves the try block.
Finally(c) ==
    /\ isRefreshing' = IF isLeader[c] THEN ResetFlag ELSE isRefreshing
    /\ isLeader' = [isLeader EXCEPT ![c] = FALSE]
    /\ cycles' = IF isLeader[c] THEN [cycles EXCEPT ![Cur].ended = TRUE] ELSE cycles

\* Lines 90/97, 98-100, 104-113: the retry is answered; whatever it is, the
\* call ends with it.
Respond2(c, status) ==
    /\ pc[c] = "fetch2"
    /\ Finally(c)
    /\ Finish(c, status)
    /\ UNCHANGED <<storage, refreshQueue, skipAuth, sent, newToken, joined, issued,
                   logout, errResp, apiError, query, request, auth, hook>>

\* Line 80: the first fetch rejects (no response).
NetFail1(c) ==
    /\ pc[c] = "fetch1"
    /\ pc' = [pc EXCEPT ![c] = "done"]
    /\ result' = [result EXCEPT ![c] = [kind |-> "TypeError", status |-> 0]]
    /\ UNCHANGED <<storage, isRefreshing, refreshQueue, skipAuth, sent, resp, newToken,
                   isLeader, joined, issued, cycles, logout, errResp, apiError, query,
                   request, auth, hook>>

\* Lines 90/97: the retry's fetch rejects (no response).
NetFail2(c) ==
    /\ pc[c] = "fetch2"
    /\ Finally(c)
    /\ pc' = [pc EXCEPT ![c] = "done"]
    /\ result' = [result EXCEPT ![c] = [kind |-> "TypeError", status |-> 0]]
    /\ UNCHANGED <<storage, refreshQueue, skipAuth, sent, resp, newToken, joined, issued,
                   logout, errResp, apiError, query, request, auth, hook>>

\* How authApi.logout can end: its post answered with an ok status, answered
\* with an error status, rejected by the transport, or not made at all.
LogoutOutcomes == {"answered", "refused", "unreachable"}

LogoutDone == logout \in LogoutOutcomes \cup {"skipped"}

\* The store cleared unless the post threw: the catch of lines 149-151 left
\* out.
AfterLogoutPostUncaught(st, outcome) ==
    IF outcome = "unreachable" THEN st ELSE TokenClear(st)

\* authApi.logout, lines 141-154: fetch resolves for any status and a
\* rejection is caught, so line 154 clears the store in every case.
AfterLogoutPost(st, outcome) == TokenClear(st)

\* authApi.logout, lines 135-152: with a refresh token it posts and awaits;
\* without one it clears at once (line 154).
LogoutStart ==
    /\ logout = "idle"
    /\ IF storage.refresh # NoToken
       THEN /\ logout' = "posting"
            /\ UNCHANGED storage
       ELSE /\ logout' = "skipped"
            /\ storage' = TokenClear(storage)
    /\ UNCHANGED <<isRefreshing, refreshQueue, pc, skipAuth, sent, resp, newToken,
                   isLeader, result, joined, issued, cycles, errResp, apiError, query,
                   request, auth, hook>>

\* authApi.logout, lines 141-154: the post is answered or fails; either way
\* the store is cleared.
LogoutEnd(outcome) ==
    /\ logout = "posting"
    /\ logout' = outcome
    /\ storage' = AfterLogoutPost(storage, outcome)
    /\ UNCHANGED <<isRefreshing, refreshQueue, pc, skipAuth, sent, resp, newToken,
                   isLeader, result, joined, issued, cycles, errResp, apiError, query,
                   request, auth, hook>>

Next ==
    \/ \E c \in Calls, sk \in BOOLEAN : Call(c, sk)
    \/ \E c \in Calls, status \in Statuses : Respond1(c, status)
    \/ \E c \in Calls, status \in Statuses : JoinQueue(c, status)
    \/ \E c \in Calls, status \in Statuses : BecomeLeader(c, status)
    \/ \E c \in Calls : RefreshOk(c)
    \/ \E c \in Calls : RefreshBody(c)
    \/ \E c \in Calls : RefreshReject(c)
    \/ \E c \in Calls : RefreshNetFail(c)
    \/ \E c \in Calls : LeaderFinally(c)
    \/ \E c \in Calls : LeaderResume(c)
    \/ \E c \in Calls : WaiterResume(c)
    \/ \E c \in Calls, status \in Statuses : Respond2(c, status)
    \/ \E c \in Calls : NetFail1(c)
    \/ \E c \in Calls : NetFail2(c)

Spec == Init /\ [][Next]_vars

\* The same session with a logout running beside the calls.
NextLogout ==
    \/ Next
    \/ LogoutStart
    \/ \E outcome \in LogoutOutcomes : LogoutEnd(outcome)

SpecLogout == Init /\ [][NextLogout]_vars


-----------------------------------------------------------------------------
\* Error classification (api.ts lines 104-108 and 120-148).  A string is a
\* sequence of words, so the empty string is <<>>.  A JSON value is
\* [t, s, l]: a string s, a list l of strings, null, or undefined (a key
\* the object does not have).  An object is the sequence of its [k, v]
\* fields in insertion order, the order Object.values follows.

MaxKeys == 2

Keys == {"detail", "message", "error", "email"}

Texts == {<<>>, <<"A">>, <<"B">>, <<"bad format">>}

Lists == {<<>>, << <<"bad format">> >>, << <<"A">>, <<"B">> >>}

Null == [t |-> "null", s |-> <<>>, l |-> <<>>]

Undefined == [t |-> "undefined", s |-> <<>>, l |-> <<>>]

Str(s) == [t |-> "str", s |-> s, l |-> <<>>]

List(l) == [t |-> "list", s |-> <<>>, l |-> l]

Values == {Null} \cup {Str(s) : s \in Texts} \cup {List(l) : l \in Lists}

Objects ==
    UNION {{f \in [1..n -> [k : Keys, v : Values]] :
               \A i, j \in 1..n : i # j => f[i].k # f[j].k} : n \in 0..MaxKeys}

\* What response.json() yields or fails on: no JSON at all, null, a string,
\* an object.
Unparsable == [t |-> "unparsable", s |-> <<>>, f |-> <<>>]

Bodies ==
    {Unparsable, [t |-> "null", s |-> <<>>, f |-> <<>>]}
        \cup {[t |-> "str", s |-> s, f |-> <<>>] : s \in Texts}
        \cup {[t |-> "obj", s |-> <<>>, f |-> f] : f \in Objects}

StatusTexts == {<<>>, <<"Internal Server Error">>}

ErrorResponses ==
    [status : {st \in Statuses : ~IsOk(st)}, statusText : StatusTexts, body : Bodies]

Fallback == <<"Une erreur est survenue">>

\* d.key: the value of the field, undefined when the object has none.
Get(d, key) ==
    IF \E i \in DOMAIN d : d[i].k = key
    THEN d[CHOOSE i \in DOMAIN d : d[i].k = key].v
    ELSE Undefined

\* JavaScript truthiness: the empty string, null and undefined are falsy,
\* every list is truthy.
Truthy(v) == (v.t = "str" /\ v.s # <<>>) \/ v.t = "list"

\* Array.prototype.join with the default separator.
RECURSIVE Join(_)
Join(l) ==
    IF l = <<>> THEN <<>>
    ELSE IF Len(l) = 1 THEN l[1]
    ELSE l[1] \o <<",">> \o Join(Tail(l))

\* String(v)
String(v) ==
    IF v.t = "str" THEN v.s
    ELSE IF v.t = "list" THEN Join(v.l)
    ELSE IF v.t = "null" THEN <<"null">>
    ELSE <<"undefined">>

\* Lines 136-148.
extractMessage(data) ==
    IF data.t = "str" THEN data.s
    ELSE IF data.t = "obj" THEN
        LET d == data.f
            first == IF d # <<>> THEN d[1].v ELSE Undefined
        IN  IF Truthy(Get(d, "detail")) THEN String(Get(d, "detail"))
            ELSE IF Truthy(Get(d, "message")) THEN String(Get(d, "message"))
            ELSE IF Truthy(Get(d, "error")) THEN String(Get(d, "error"))
            ELSE IF first.t = "list"
                 THEN String(IF first.l # <<>> THEN Str(first.l[1]) ELSE Undefined)
                 ELSE Fallback
    ELSE Fallback

\* Line 106: the parsed body, or the status text under detail when parsing
\* throws.
ErrorData(r) ==
    IF r.body = Unparsable
    THEN [t |-> "obj", s |-> <<>>, f |-> <<[k |-> "detail", v |-> Str(r.statusText)]>>]
    ELSE r.body

\* Lines 124-128: new ApiError(status, data).
ApiError(status, data) ==
    [kind |-> "ApiError", status |-> status, message |-> extractMessage(data)]

InitMsg ==
    /\ storage = LoggedIn
    /\ isRefreshing = FALSE
    /\ refreshQueue = <<>>
    /\ pc = [c \in Calls |-> "init"]
    /\ skipAuth = [c \in Calls |-> FALSE]
    /\ sent = [c \in Calls |-> <<>>]
    /\ resp = [c \in Calls |-> <<>>]
    /\ newToken = [c \in Calls |-> NoToken]
    /\ isLeader = [c \in Calls |-> FALSE]
    /\ joined = [c \in Calls |-> 0]
    /\ result = [c \in Calls |-> NoResult]
    /\ issued = 0
    /\ cycles = <<>>
    /\ logout = "idle"
    /\ errResp \in ErrorResponses
    /\ apiError = NoError
    /\ query = NoQuery
    /\ request = NoRequest
    /\ auth = NoAuth
    /\ hook = NoHook

\* Lines 104-108: the response is not ok; its body is parsed and the
\* ApiError is thrown.
Classify ==
    /\ apiError = NoError
    /\ apiError' = ApiError(errResp.status, ErrorData(errResp))
    /\ UNCHANGED <<storage, isRefreshing, refreshQueue, pc, skipAuth, sent, resp, newToken,
                   isLeader, joined, result, issued, cycles, logout, errResp, query, request,
                   auth, hook>>

NextMsg == Classify

SpecMsg == InitMsg /\ [][NextMsg]_vars

-----------------------------------------------------------------------------
\* Query-string builders (dataApi.ts lines 163-171 and 634-641,
\* transactionsApi.ts lines 66-81).  The argument is undefined (given =
\* FALSE) or an object, the sequence f of its [k, v] entries in the order of
\* Object.entries.  A number or boolean carries in s the text String gives
\* it.  The result is [mark, pairs]: whether it starts with '?', and the
\* name-value pairs URLSearchParams serializes after it, in order; the empty
\* string is [FALSE, <<>>].

MaxParams == 2

ParamKeys == {"page", "search", "ordering"}

Num(digits) == [t |-> "num", s |-> digits, l |-> <<>>]

Bool(word) == [t |-> "bool", s |-> word, l |-> <<>>]

ParamValues ==
    {Undefined, Null, Str(<<>>), Str(<<"A">>), Num(<<"0">>), Bool(<<"false">>),
     List(<<>>), List(<< <<"A">>, <<"B">> >>)}

ParamObjects ==
    UNION {{f \in [1..n -> [k : ParamKeys, v : ParamValues]] :
               \A i, j \in 1..n : i # j => f[i].k # f[j].k} : n \in 0..MaxParams}

EmptyString == [mark |-> FALSE, pairs |-> <<>>]

\* String(v) for a parameter value.
ParamString(v) == IF v.t \in {"num", "bool"} THEN v.s ELSE String(v)

\* One serialized pair for the entry.
OnePair(e) == <<[k |-> e.k, v |-> ParamString(e.v)]>>

\* transactionsApi.ts lines 72-78: an array is appended element by element.
PairPerElement(e) ==
    IF e.v.t = "list"
    THEN [i \in 1..Len(e.v.l) |-> [k |-> e.k, v |-> e.v.l[i]]]
    ELSE OnePair(e)

\* dataApi.ts line 167: v !== undefined && v !== '' && v !== null
KeptByQs(v) == v # Undefined /\ v # Str(<<>>) /\ v # Null

\* dataApi.ts line 636, transactionsApi.ts line 68: v !== undefined && v !== ''
KeptByFilter(v) == v # Undefined /\ v # Str(<<>>)

\* dataApi.ts lines 166-168: p.set for each entry that passes the test.
RECURSIVE SetEach(_)
SetEach(f) ==
    IF f = <<>> THEN <<>>
    ELSE (IF KeptByQs(f[1].v) THEN OnePair(f[1]) ELSE <<>>) \o SetEach(Tail(f))

\* Object.entries(params).filter(...)
RECURSIVE Filtered(_)
Filtered(f) ==
    IF f = <<>> THEN <<>>
    ELSE (IF KeptByFilter(f[1].v) THEN <<f[1]>> ELSE <<>>) \o Filtered(Tail(f))

\* dataApi.ts lines 638-640: filtered.map(([k, v]) => [k, String(v)])
RECURSIVE MapPairs(_)
MapPairs(f) == IF f = <<>> THEN <<>> ELSE OnePair(f[1]) \o MapPairs(Tail(f))

\* transactionsApi.ts lines 71-78: filtered.forEach(... append ...)
RECURSIVE AppendEach(_)
AppendEach(f) == IF f = <<>> THEN <<>> ELSE PairPerElement(f[1]) \o AppendEach(Tail(f))

\* dataApi.ts lines 163-171
qs(q) ==
    IF ~q.given THEN EmptyString
    ELSE LET pairs == SetEach(q.f)
         IN  IF pairs # <<>> THEN [mark |-> TRUE, pairs |-> pairs] ELSE EmptyString

\* dataApi.ts lines 634-641
buildQueryStringData(q) ==
    IF ~q.given THEN EmptyString
    ELSE IF Filtered(q.f) = <<>> THEN EmptyString
    ELSE [mark |-> TRUE, pairs |-> MapPairs(Filtered(q.f))]

\* transactionsApi.ts lines 66-81
buildQueryStringTx(q) ==
    IF ~q.given THEN EmptyString
    ELSE IF Filtered(q.f) = <<>> THEN EmptyString
    ELSE [mark |-> TRUE, pairs |-> AppendEach(Filtered(q.f))]

InitQuery ==
    /\ storage = LoggedIn
    /\ isRefreshing = FALSE
    /\ refreshQueue = <<>>
    /\ pc = [c \in Calls |-> "init"]
    /\ skipAuth = [c \in Calls |-> FALSE]
    /\ sent = [c \in Calls |-> <<>>]
    /\ resp = [c \in Calls |-> <<>>]
    /\ newToken = [c \in Calls |-> NoToken]
    /\ isLeader = [c \in Calls |-> FALSE]
    /\ joined = [c \in Calls |-> 0]
    /\ result = [c \in Calls |-> NoResult]
    /\ issued = 0
    /\ cycles = <<>>
    /\ logout = "idle"
    /\ errResp = NoResponse
    /\ apiError = NoError
    /\ \E g \in BOOLEAN : \E f \in ParamObjects :
          /\ (~g => f = <<>>)
          /\ query = [NoQuery EXCEPT !.given = g, !.f = f]
    /\ request = NoRequest
    /\ auth = NoAuth
    /\ hook = NoHook

CallQs ==
    /\ query.builder = "none"
    /\ query' = [query EXCEPT !.builder = "qs", !.out = qs(query)]
    /\ UNCHANGED <<storage, isRefreshing, refreshQueue, pc, skipAuth, sent, resp, newToken,
                   isLeader, joined, result, issued, cycles, logout, errResp, apiError,
                   request, auth, hook>>

CallBuildQueryStringData ==
    /\ query.builder = "none"
    /\ query' = [query EXCEPT !.builder = "dataApi.buildQueryString",
                              !.out = buildQueryStringData(query)]
    /\ UNCHANGED <<storage, isRefreshing, refreshQueue, pc, skipAuth, sent, resp, newToken,
                   isLeader, joined, result, issued, cycles, logout, errResp, apiError,
                   request, auth, hook>>

CallBuildQueryStringTx ==
    /\ query.builder = "none"
    /\ query' = [query EXCEPT !.builder = "transactionsApi.buildQueryString",
                              !.out = buildQueryStringTx(query)]
    /\ UNCHANGED <<storage, isRefreshing, refreshQueue, pc, skipAuth, sent, resp, newToken,
                   isLeader, joined, result, issued, cycles, logout, errResp, apiError,
                   request, auth, hook>>

NextQuery == CallQs \/ CallBuildQueryStringData \/ CallBuildQueryStringTx

SpecQuery == InitQuery /\ [][NextQuery]_vars

-----------------------------------------------------------------------------
\* The state of the request machine in which nothing has been called: the
\* other operations below start from it and leave it alone.
fetchVars ==
    <<isRefreshing, refreshQueue, pc, skipAuth, sent, resp, newToken, isLeader, joined,
      result, issued, cycles, logout>>

FetchIdle ==
    /\ isRefreshing = FALSE
    /\ refreshQueue = <<>>
    /\ pc = [c \in Calls |-> "init"]
    /\ skipAuth = [c \in Calls |-> FALSE]
    /\ sent = [c \in Calls |-> <<>>]
    /\ resp = [c \in Calls |-> <<>>]
    /\ newToken = [c \in Calls |-> NoToken]
    /\ isLeader = [c \in Calls |-> FALSE]
    /\ joined = [c \in Calls |-> 0]
    /\ result = [c \in Calls |-> NoResult]
    /\ issued = 0
    /\ cycles = <<>>
    /\ logout = "idle"

-----------------------------------------------------------------------------
\* Request headers (api.ts lines 66-80, 89-90, 96-97).  A headers object is
\* a function from header names to values, NoHeader for a name it does not
\* have; wire holds the headers object of each fetch of the request.

Plain(text) == [text |-> text, token |-> 0]

Bearer(tok) == [text |-> "Bearer", token |-> tok]

CallerToken == 9

\* options.headers as a caller may give them.
CallerHeaders ==
    {o \in [HeaderKeys -> {NoHeader, Plain("multipart/form-data"), Plain("trace"),
                           Plain("Basic"), Bearer(CallerToken)}] :
        /\ o["Content-Type"] \in {NoHeader, Plain("multipart/form-data")}
        /\ o["Authorization"] \in {NoHeader, Plain("Basic"), Bearer(CallerToken)}
        /\ o["X-Trace"] \in {NoHeader, Plain("trace")}}

StoredAccess == {NoToken, InitAccess, IssuedToken(1)}

\* Lines 68-71: the default Content-Type, then the caller's headers over it.
SpreadHeaders(opts) ==
    [h \in HeaderKeys |->
        IF opts[h] # NoHeader THEN opts[h]
        ELSE IF h = "Content-Type" THEN Plain("application/json")
        ELSE NoHeader]

\* Lines 73-76: the stored access token, if any, set as the bearer.
AttachToken(h, sk, access) ==
    IF ~sk /\ access # NoToken THEN [h EXCEPT !["Authorization"] = Bearer(access)] ELSE h

InitHeaders ==
    /\ FetchIdle
    /\ \E a \in StoredAccess :
          storage = IF a = NoToken THEN EmptyStore ELSE [LoggedIn EXCEPT !.access = a]
    /\ errResp = NoResponse
    /\ apiError = NoError
    /\ query = NoQuery
    /\ \E sk \in BOOLEAN : \E o \in CallerHeaders :
          request = [NoRequest EXCEPT !.sk = sk, !.opts = o]
    /\ auth = NoAuth
    /\ hook = NoHook

\* Lines 66-80: apiFetch is entered, builds the headers and sends.
BuildHeaders ==
    /\ request.stage = "none"
    /\ LET h == AttachToken(SpreadHeaders(request.opts), request.sk, storage.access)
       IN  request' = [request EXCEPT !.stage = "sent", !.headers = h, !.wire = <<h>>]
    /\ UNCHANGED <<storage, fetchVars, errResp, apiError, query, auth, hook>>

\* Lines 83-97: after a 401 and a refresh the same headers object gets the
\* new bearer and the request is sent again.
RetryHeaders(tok) ==
    /\ request.stage = "sent"
    /\ ~request.sk
    /\ LET h == [request.headers EXCEPT !["Authorization"] = Bearer(tok)]
       IN  request' = [request EXCEPT !.stage = "resent", !.headers = h,
                                      !.wire = Append(@, h)]
    /\ UNCHANGED <<storage, fetchVars, errResp, apiError, query, auth, hook>>

NextHeaders ==
    \/ BuildHeaders
    \/ \E tok \in {IssuedToken(2), IssuedToken(3)} : RetryHeaders(tok)

SpecHeaders == InitHeaders /\ [][NextHeaders]_vars

-----------------------------------------------------------------------------
\* AuthProvider.login (transactionsApi.ts lines 360-381) with authApi.login
\* (authApi.ts lines 126-132), getProfile and fetchUserList
\* (transactionsApi.ts lines 314-326).  auth.pc is where login is suspended:
\* "login", "profile", "users", or "returned"; auth.failed names the
\* request whose failure the catch handled.

MaxLogins == 2

Roles == {"admin", "manager", "agent"}

\* What an awaited request can reject with: an ApiError of some status, the
\* TypeError of a failed fetch, or the Error of refreshAccessToken.
LoginErrors ==
    {[kind |-> "ApiError", status |-> st] : st \in {401, 403, 500}}
        \cup {[kind |-> "TypeError", status |-> 0], [kind |-> "Error", status |-> 0]}

\* Tokens of the n-th login response.
LoginToken(n) == 10 + n

\* TokenStorage.setTokens
TokenSetTokens(st, access, refresh) == [st EXCEPT !.access = access, !.refresh = refresh]

\* The catch returning without clearing the store.
StoreOnLoginErrorKept(st) == st

\* Line 371: the catch clears the store first.
StoreOnLoginError(st) == TokenClear(st)

\* Lines 372-377: the message of the failure result.
FailureMessage(err) ==
    IF err.kind = "ApiError"
    THEN IF err.status = 401 THEN "Email ou mot de passe incorrect"
         ELSE IF err.status = 403 THEN "Votre compte est en attente de validation"
         ELSE "err.userMessage"
    ELSE "Erreur de connexion"

\* Lines 370-380: catch and finally.
LoginCaught(err, at) ==
    /\ storage' = StoreOnLoginError(storage)
    /\ auth' = [auth EXCEPT !.pc = "returned", !.success = FALSE,
                            !.message = FailureMessage(err), !.failed = at,
                            !.isLoading = FALSE]

\* Lines 369, 378-380: the success result and finally.
LoginSucceeded(a) ==
    [a EXCEPT !.pc = "returned", !.success = TRUE, !.message = "Connexion réussie",
              !.isLoading = FALSE]

InitLogin ==
    /\ FetchIdle
    /\ errResp = NoResponse
    /\ apiError = NoError
    /\ query = NoQuery
    /\ request = NoRequest
    /\ hook = NoHook
    /\ \/ storage = EmptyStore /\ auth = NoAuth
       \/ \E r \in Roles : storage = LoggedIn /\ auth = [NoAuth EXCEPT !.user = r]

\* Lines 360-363: login is called; isLoading is set and the login request
\* is sent with skipAuth.
LoginCall ==
    /\ auth.pc \in {"idle", "returned"}
    /\ auth.calls < MaxLogins
    /\ auth' = [auth EXCEPT !.pc = "login", !.isLoading = TRUE, !.success = FALSE,
                            !.message = "", !.failed = "none", !.calls = @ + 1]
    /\ UNCHANGED <<storage, fetchVars, errResp, apiError, query, request, hook>>

\* Lines 363-365: the login request is answered ok; the tokens are stored
\* and the profile is requested.
LoginAnswered ==
    /\ auth.pc = "login"
    /\ storage' = TokenSetTokens(storage, LoginToken(auth.calls), LoginToken(auth.calls))
    /\ auth' = [auth EXCEPT !.pc = "profile"]
    /\ UNCHANGED <<fetchVars, errResp, apiError, query, request, hook>>

\* Line 363 rejects.
LoginFailed(err) ==
    /\ auth.pc = "login"
    /\ LoginCaught(err, "login")
    /\ UNCHANGED <<fetchVars, errResp, apiError, query, request, hook>>

\* Lines 365-369 and 340-343: the profile arrives; the user is set, the
\* effect on [user] caches it, and the user list is requested for an admin
\* or a manager; for any other role fetchUserList requests nothing.
\* refreshed: the profile request was first answered 401 and apiFetch
\* refreshed the access token before its retry (api.ts lines 55-57).
ProfileAnswered(role, refreshed) ==
    /\ auth.pc = "profile"
    /\ storage' = [storage EXCEPT !.user = TRUE,
                                  !.access = IF refreshed THEN IssuedToken(auth.calls) ELSE @]
    /\ auth' = IF role \in {"admin", "manager"}
               THEN [auth EXCEPT !.pc = "users", !.user = role]
               ELSE LoginSucceeded([auth EXCEPT !.user = role])
    /\ UNCHANGED <<fetchVars, errResp, apiError, query, request, hook>>

\* Line 365 rejects.  When the error is the Error of refreshAccessToken the
\* store was already cleared by it (api.ts line 50).
ProfileFailed(err) ==
    /\ auth.pc = "profile"
    /\ LoginCaught(err, "profile")
    /\ UNCHANGED <<fetchVars, errResp, apiError, query, request, hook>>

\* Lines 314-326, 368-369: the user list arrives or fails; fetchUserList
\* swallows the failure.  expired: the list request ran into a refused
\* refresh, which cleared the store (api.ts line 50).
UsersDone(outcome) ==
    /\ auth.pc = "users"
    /\ storage' = IF outcome = "expired" THEN TokenClear(storage) ELSE storage
    /\ auth' = LoginSucceeded(auth)
    /\ UNCHANGED <<fetchVars, errResp, apiError, query, request, hook>>

NextLogin ==
    \/ LoginCall
    \/ LoginAnswered
    \/ \E err \in LoginErrors : LoginFailed(err)
    \/ \E role \in Roles, refreshed \in BOOLEAN : ProfileAnswered(role, refreshed)
    \/ \E err \in LoginErrors : ProfileFailed(err)
    \/ \E outcome \in {"ok", "failed", "expired"} : UsersDone(outcome)

SpecLogin == InitLogin /\ [][NextLogin]_vars

-----------------------------------------------------------------------------
\* useAsync (permissions.ts lines 84-120 and 361-393, the same code).
\* hook.fetches[i] is the state of the i-th call of fetchFn: "inflight",
\* "ok" or "err"; data and error hold the number of the fetch whose result
\* or failure was last stored, 0 for null; mounted is mountedRef.current.

MaxFetches == 3

\* Lines 98-100: execute up to its await.
Execute(h) ==
    [h EXCEPT !.loading = TRUE, !.error = 0, !.fetches = Append(@, "inflight")]

InitHook ==
    /\ FetchIdle
    /\ storage = LoggedIn
    /\ errResp = NoResponse
    /\ apiError = NoError
    /\ query = NoQuery
    /\ request = NoRequest
    /\ auth = NoAuth
    /\ hook = NoHook

\* Lines 114-118: the first effect sets mountedRef and calls execute.
Mount ==
    /\ hook.fetches = <<>>
    /\ ~hook.unmounted
    /\ hook' = Execute([hook EXCEPT !.mounted = TRUE])
    /\ UNCHANGED <<storage, fetchVars, errResp, apiError, query, request, auth>>

\* Lines 112-118: deps change, so execute changes; the cleanup of the old
\* effect clears mountedRef, the new effect sets it again and calls execute.
DepsChange ==
    /\ hook.fetches # <<>>
    /\ ~hook.unmounted
    /\ Len(hook.fetches) < MaxFetches
    /\ hook' = Execute([[hook EXCEPT !.mounted = FALSE] EXCEPT !.mounted = TRUE])
    /\ UNCHANGED <<storage, fetchVars, errResp, apiError, query, request, auth>>

\* Line 119: the component calls refetch, which is execute.
Refetch ==
    /\ hook.fetches # <<>>
    /\ ~hook.unmounted
    /\ Len(hook.fetches) < MaxFetches
    /\ hook' = Execute(hook)
    /\ UNCHANGED <<storage, fetchVars, errResp, apiError, query, request, auth>>

\* Lines 101-102, 110-111: fetch i resolves.
Resolve(i) ==
    /\ i \in DOMAIN hook.fetches
    /\ hook.fetches[i] = "inflight"
    /\ hook' = IF hook.mounted
               THEN [hook EXCEPT !.fetches[i] = "ok", !.data = i, !.loading = FALSE]
               ELSE [hook EXCEPT !.fetches[i] = "ok"]
    /\ UNCHANGED <<storage, fetchVars, errResp, apiError, query, request, auth>>

\* Lines 103-111: fetch i rejects.
Reject(i) ==
    /\ i \in DOMAIN hook.fetches
    /\ hook.fetches[i] = "inflight"
    /\ hook' = IF hook.mounted
               THEN [hook EXCEPT !.fetches[i] = "err", !.error = i, !.loading = FALSE]
               ELSE [hook EXCEPT !.fetches[i] = "err"]
    /\ UNCHANGED <<storage, fetchVars, errResp, apiError, query, request, auth>>

\* Line 117: the component unmounts; the cleanup clears mountedRef.
Unmount ==
    /\ hook.fetches # <<>>
    /\ ~hook.unmounted
    /\ hook' = [hook EXCEPT !.mounted = FALSE, !.unmounted = TRUE]
    /\ UNCHANGED <<storage, fetchVars, errResp, apiError, query, request, auth>>

NextHook ==
    \/ Mount
    \/ DepsChange
    \/ Refetch
    \/ \E i \in 1..MaxFetches : Resolve(i)
    \/ \E i \in 1..MaxFetches : Reject(i)
    \/ Unmount

SpecHook == InitHook /\ [][NextHook]_vars

(***************************************************************************)
(* Properties.                                                             *)
(***************************************************************************)

Started == {c \in Calls : pc[c] # "init"}

\* Calls whose first response was a 401 handled by lines 83-102.
Got401 == {c \in Calls : ~skipAuth[c] /\ resp[c] # <<>> /\ resp[c][1] = 401}

RECURSIVE SumPosts(_)
SumPosts(k) == IF k = 0 THEN 0 ELSE cycles[k].posts + SumPosts(k - 1)

\* Total number of POSTs to the refresh endpoint.
RefreshCalls == SumPosts(Len(cycles))

\* Every call made so far is authenticated, was sent with the token the
\* login stored and received 401; a refresh token was stored for every
\* cycle and no refresh was refused or failed.
ExpiredTokenScenario ==
    /\ Started # {}
    /\ \A c \in Started : ~skipAuth[c] /\ sent[c][1] = InitAccess /\ c \in Got401
    /\ \A k \in DOMAIN cycles :
          cycles[k].hadRefresh /\ cycles[k].outcome \in {"pending", "ok"}

\* No call has a network answer or a continuation pending.
Quiescent == \A c \in Calls : pc[c] \in {"init", "done", "queued"}

\* C1: N concurrent authenticated calls sent with the same expired token and
\* each answered 401, with a valid refresh token and a refresh endpoint that
\* answers success, cause exactly one POST to the refresh endpoint, under
\* every interleaving.
SingleFlight_C1 == ExpiredTokenScenario => RefreshCalls = 1

\* C1 (amended): under the same conditions, when every one of the 401
\* responses arrives before the first cycle has ended (each call leads or is
\* queued in cycle 1), exactly one POST to the refresh endpoint is made.
SingleFlightWithinCycle_C1 ==
    (ExpiredTokenScenario /\ \A c \in Started : joined[c] = 1) => RefreshCalls = 1

\* All calls observed their 401 within the first cycle, were released by it
\* and completed their retry, with one POST in total.
Witness_C1 ==
    /\ ExpiredTokenScenario
    /\ Started = Calls
    /\ \A c \in Calls : joined[c] = 1 /\ pc[c] = "done" /\ Len(sent[c]) = 2
    /\ RefreshCalls = 1

\* C2: under the same conditions, once every network call has answered and
\* every continuation has run, every call has resent its request and
\* completed; none is left suspended on the refresh queue.
AllComplete_C2 ==
    (ExpiredTokenScenario /\ Quiescent) =>
        \A c \in Started : pc[c] = "done" /\ Len(sent[c]) = 2

\* C3: in every reachable state at most one call to the refresh endpoint is
\* outstanding and at most one call is the leader.
AtMostOneLeader_C3 ==
    /\ Cardinality({c \in Calls : isLeader[c]}) <= 1
    /\ Cardinality({c \in Calls : pc[c] \in {"refreshing", "refreshBody"}}) <= 1

\* A refresh is outstanding while another call has observed its 401 and is
\* queued, and a third call is still awaiting its first response.
Witness_C3 ==
    \E c, d, e \in Calls :
        /\ pc[c] = "refreshing" /\ isLeader[c]
        /\ pc[d] = "queued"
        /\ pc[e] = "fetch1" /\ ~skipAuth[e]

\* C4: every Idle->Refreshing->Idle cycle contains exactly one network call
\* to the refresh endpoint, whether or not a refresh token is stored.
OnePostPerCycle_C4 ==
    \A k \in DOMAIN cycles : cycles[k].ended => cycles[k].posts = 1

\* C4 (amended): every cycle contains at most one network call to the refresh
\* endpoint, however many callers observed 401 during it: exactly one when a
\* refresh token is stored when the leader starts the cycle, none otherwise.
PostsPerCycle_C4 ==
    \A k \in DOMAIN cycles :
        cycles[k].posts = IF cycles[k].hadRefresh THEN 1 ELSE 0

\* A cycle with a refresh token, a waiter and one POST has ended, and so has
\* a cycle started without a refresh token, with no POST.
Witness_C4 ==
    \E k1, k2 \in DOMAIN cycles :
        /\ cycles[k1].ended /\ cycles[k1].hadRefresh
        /\ cycles[k1].waiters # {} /\ cycles[k1].posts = 1
        /\ cycles[k2].ended /\ ~cycles[k2].hadRefresh /\ cycles[k2].posts = 0

\* C5: when the refresh endpoint answers with a non-success status, every
\* waiter queued at that moment is released with a failure: none is left
\* pending and none resends its request.
WaitersRejected_C5 ==
    \A k \in DOMAIN cycles :
        (cycles[k].outcome = "rejected" /\ cycles[k].ended) =>
            \A c \in cycles[k].waiters : pc[c] # "queued" /\ Len(sent[c]) = 1

\* C6: all callers released by one cycle (the leader and every waiter its
\* processQueue resolves) receive the same token, the one the refresh
\* endpoint returned and the cycle wrote to the store; each retries with it.
SameToken_C6 ==
    \A k \in DOMAIN cycles :
        \A c \in cycles[k].released :
            /\ newToken[c] = cycles[k].token
            /\ cycles[k].stored = cycles[k].token
            /\ Len(sent[c]) = 2 => sent[c][2] = cycles[k].token

\* A second cycle released its leader and a waiter, after a first cycle
\* handed out another token; all of them have resent.
Witness_C6 ==
    \E k \in DOMAIN cycles :
        /\ k > 1
        /\ cycles[1].released # {}
        /\ Cardinality(cycles[k].released) >= 2
        /\ \A c \in cycles[k].released : Len(sent[c]) = 2

\* Cycles led by call c.
Led(c) == {k \in DOMAIN cycles : cycles[k].leader = c}

\* C7: a call whose retry is answered ends there: it does not start or join
\* another refresh, has sent its request twice, has led at most one cycle,
\* and when the retry's answer is 401 it throws an ApiError with status 401.
BoundedRetry_C7 ==
    [][\A c \in Calls :
          (pc[c] = "fetch2" /\ resp'[c] # resp[c]) =>
              /\ pc'[c] = "done"
              /\ Len(sent'[c]) = 2
              /\ Len(cycles') = Len(cycles)
              /\ refreshQueue' = refreshQueue
              /\ Cardinality(Led(c)') <= 1
              /\ resp'[c][2] = 401 =>
                     result'[c] = [kind |-> "ApiError", status |-> 401]]_vars

\* A leader and a waiter both had their retry answered 401 and ended with an
\* ApiError of status 401.
Witness_C7 ==
    \E c, d \in Calls :
        /\ c # d
        /\ Led(c) # {} /\ \E k \in DOMAIN cycles : d \in cycles[k].waiters
        /\ \A e \in {c, d} :
              /\ pc[e] = "done" /\ resp[e] = <<401, 401>>
              /\ result[e] = [kind |-> "ApiError", status |-> 401]

\* C8: when the refresh fails because no refresh token is stored, the store
\* is cleared entirely, the redirect to /login is made exactly once and the
\* state returns to Idle.
NoTokenTerminates_C8 ==
    \A k \in DOMAIN cycles :
        (cycles[k].outcome = "noToken" /\ cycles[k].ended) =>
            /\ cycles[k].clears = 1
            /\ cycles[k].redirects = 1
            /\ k = Cur => (~isRefreshing /\ storage = EmptyStore)

\* C9: when the refresh endpoint answers with a non-success status the store
\* is cleared exactly once in that cycle, whatever the number of callers, and
\* holds no access and no refresh token afterwards.
ClearedOnce_C9 ==
    \A k \in DOMAIN cycles :
        cycles[k].outcome = "rejected" =>
            /\ cycles[k].clears = 1
            /\ ~cycles[k].ended =>
                   storage.access = NoToken /\ storage.refresh = NoToken

\* The refresh was refused while two callers were queued; the leader has not
\* yet left its try block.
Witness_C9 ==
    \E k \in DOMAIN cycles :
        /\ cycles[k].outcome = "rejected" /\ ~cycles[k].ended
        /\ Cardinality(cycles[k].waiters) >= 2
        /\ storage = EmptyStore

\* C10: for every cycle in which the refresh endpoint rejects, the redirect to
\* /login is performed exactly once, also when no waiter was queued.
RedirectOnce_C10 ==
    \A k \in DOMAIN cycles :
        cycles[k].outcome = "rejected" => cycles[k].redirects = 1

\* A refused cycle with the leader alone has ended, with one redirect.
Witness_C10 ==
    \E k \in DOMAIN cycles :
        /\ cycles[k].outcome = "rejected" /\ cycles[k].ended
        /\ cycles[k].waiters = {} /\ refreshQueue = <<>>
        /\ cycles[k].redirects = 1

\* C11: after a cycle whose refresh the endpoint refused has ended, the flag
\* is false, so an authenticated call whose 401 arrives then becomes the
\* leader of a new cycle and is not queued.
NewCycleAfterFailure_C11 ==
    [][\A c \in Calls :
          (/\ pc[c] = "fetch1" /\ ~skipAuth[c] /\ resp'[c] = <<401>>
           /\ Cur >= 1 /\ cycles[Cur].outcome = "rejected" /\ cycles[Cur].ended) =>
              /\ ~isRefreshing
              /\ Len(cycles') = Cur + 1
              /\ cycles'[Cur + 1].leader = c
              /\ isLeader'[c]
              /\ pc'[c] # "queued" /\ refreshQueue' = refreshQueue]_vars

\* A refused cycle has ended and a call made after it (sent without a token,
\* the store being cleared) leads the next cycle.
Witness_C11 ==
    \E k \in DOMAIN cycles :
        /\ k >= 2
        /\ cycles[k - 1].outcome = "rejected" /\ cycles[k - 1].ended
        /\ cycles[k].leader # cycles[k - 1].leader
        /\ sent[cycles[k].leader][1] = NoToken

\* C12: a skipAuth call carries no Authorization header of the client's and
\* no step of it changes the store, the flag, the queue or the cycles; its
\* first response ends it, and a 401 is thrown as an ApiError of status 401.
SkipAuthIsolated_C12 ==
    [][\A c \in Calls :
          (skipAuth'[c] /\ pc'[c] # pc[c]) =>
              /\ sent'[c] = <<NoToken>>
              /\ storage' = storage
              /\ isRefreshing' = isRefreshing
              /\ refreshQueue' = refreshQueue
              /\ cycles' = cycles
              /\ ~isLeader'[c] /\ joined'[c] = 0
              /\ pc[c] = "fetch1" =>
                    /\ pc'[c] = "done"
                    /\ resp'[c] = <<401>> =>
                          result'[c] = [kind |-> "ApiError", status |-> 401]]_vars

\* Two skipAuth calls were answered 401 and ended with the ApiError while
\* the store held a token and another call's refresh cycle was in progress.
Witness_C12 ==
    \E c, d \in Calls :
        /\ c # d
        /\ skipAuth[c] /\ skipAuth[d]
        /\ resp[c] = <<401>> /\ resp[d] = <<401>>
        /\ result[c] = [kind |-> "ApiError", status |-> 401]
        /\ result[d] = [kind |-> "ApiError", status |-> 401]
        /\ storage.access # NoToken
        /\ isRefreshing

\* C13: an authenticated call whose first response is not a 401 ends with
\* that response: one send, no refresh call, and the flag, the queue, the
\* cycles and the store left as they were.
NoRefreshWithout401_C13 ==
    [][\A c \in Calls :
          (/\ pc[c] = "fetch1" /\ ~skipAuth[c]
           /\ Len(resp'[c]) = 1 /\ resp'[c][1] # 401) =>
              /\ pc'[c] = "done"
              /\ Len(sent'[c]) = 1
              /\ result'[c] = Outcome(resp'[c][1])
              /\ storage' = storage
              /\ isRefreshing' = isRefreshing
              /\ refreshQueue' = refreshQueue
              /\ cycles' = cycles
              /\ joined'[c] = 0]_vars

\* Authenticated calls ended on a 500, a 200 and a 204 as first response
\* with no cycle ever started.
Witness_C13 ==
    /\ cycles = <<>>
    /\ \E c, d, e \in Calls :
          /\ ~skipAuth[c] /\ ~skipAuth[d] /\ ~skipAuth[e]
          /\ resp[c] = <<500>> /\ result[c] = [kind |-> "ApiError", status |-> 500]
          /\ resp[d] = <<200>> /\ result[d] = [kind |-> "json", status |-> 200]
          /\ resp[e] = <<204>> /\ result[e] = [kind |-> "null", status |-> 204]

IdleAtRelease_C15 ==
    \A k \in DOMAIN cycles :
        /\ (k = Cur /\ cycles[k].released # {}) => ~isRefreshing
        /\ \A c \in Calls :
              (joined[c] = k /\ c # cycles[k].leader /\ cycles[k].outcome = "ok") =>
                  c \in cycles[k].waiters

\* C16: every waiter is fulfilled exactly once, by the refresh that was in
\* flight when it registered: not by a later cycle, and not never.
WaiterFulfilledOnce_C16 ==
    \A c \in Calls :
        (joined[c] >= 1 /\ cycles[joined[c]].leader # c) =>
            /\ \A k \in DOMAIN cycles : c \in cycles[k].released => k = joined[c]
            /\ cycles[joined[c]].ended => pc[c] # "queued"

\* C17: the step that completes a successful refresh leaves the store with
\* the access token the endpoint returned and with the refresh token and the
\* user entry it had before.
OnlyAccessWritten_C17 ==
    [][\A c \in Calls :
          (pc[c] = "refreshBody" /\ pc'[c] = "refreshed") =>
              /\ storage'.access = newToken[c]
              /\ newToken[c] = cycles'[Cur].token
              /\ storage'.refresh = storage.refresh
              /\ storage'.user = storage.user]_vars

\* A refresh has just succeeded: the store holds the token issued by the
\* endpoint, different from the one the call was first sent with, next to
\* the refresh token of the login.
Witness_C17 ==
    \E c \in Calls :
        /\ pc[c] = "refreshed"
        /\ storage.access = newToken[c]
        /\ storage.access # sent[c][1]
        /\ storage.refresh = InitRefresh

\* C18: when the endpoint refuses the refresh, the leader does not resend:
\* its call ends after one send with a classified authentication error, an
\* ApiError of status 401.
SessionExpiredClassified_C18 ==
    \A k \in DOMAIN cycles :
        (cycles[k].outcome = "rejected" /\ cycles[k].ended) =>
            /\ pc[cycles[k].leader] = "done"
            /\ Len(sent[cycles[k].leader]) = 1
            /\ result[cycles[k].leader] = [kind |-> "ApiError", status |-> 401]

\* C19: the message follows the fixed precedence, first match wins: the
\* value of detail if the payload has it, else that of message, else that of
\* error, else the first element of the first key's value when that is a
\* list, else the generic fallback.  (A payload that is itself a string, a
\* field whose value is null and an empty list are left unconstrained here.)
Has(d, key) == \E i \in DOMAIN d : d[i].k = key

MessagePrecedence_C19 ==
    (/\ apiError # NoError
     /\ errResp.body.t \in {"obj", "null"}
     /\ \A i \in DOMAIN errResp.body.f : errResp.body.f[i].v # Null) =>
        LET d == errResp.body.f
            msg == apiError.message
        IN  /\ Has(d, "detail") => msg = String(Get(d, "detail"))
            /\ (~Has(d, "detail") /\ Has(d, "message")) => msg = String(Get(d, "message"))
            /\ (~Has(d, "detail") /\ ~Has(d, "message") /\ Has(d, "error")) =>
                   msg = String(Get(d, "error"))
            /\ (~Has(d, "detail") /\ ~Has(d, "message") /\ ~Has(d, "error")) =>
                   IF d # <<>> /\ d[1].v.t = "list"
                   THEN d[1].v.l # <<>> => msg = d[1].v.l[1]
                   ELSE msg = Fallback

\* C20: every non-ok response is classified as an ApiError with the raw
\* status, and for a body that is not JSON the message is the generic
\* fallback.
UnparsableGivesFallback_C20 ==
    apiError # NoError =>
        /\ apiError.kind = "ApiError"
        /\ apiError.status = errResp.status
        /\ errResp.body = Unparsable => apiError.message = Fallback

Omitted(v) == v = Undefined \/ v = Null \/ v = Str(<<>>)

RECURSIVE Remaining(_)
Remaining(f) ==
    IF f = <<>> THEN <<>>
    ELSE (IF Omitted(f[1].v) THEN <<>> ELSE <<[k |-> f[1].k, v |-> ParamString(f[1].v)]>>)
             \o Remaining(Tail(f))

OmitsEmptyParams_C22 ==
    (query.builder # "none" /\ \A i \in DOMAIN query.f : query.f[i].v.t # "list") =>
        /\ query.out.pairs = Remaining(query.f)
        /\ query.out.mark = (Remaining(query.f) # <<>>)

\* C23: every send of a request without skipAuth carries Authorization:
\* Bearer <token>; on the first send the token is the stored access token
\* (no Authorization header when the store has none), whatever
\* Authorization header the caller gave in options.
StoreTokenAttached_C23 ==
    (request.stage # "none" /\ ~request.sk) =>
        /\ request.wire[1]["Authorization"] =
               IF storage.access # NoToken THEN Bearer(storage.access) ELSE NoHeader
        /\ Len(request.wire) = 2 => request.wire[2]["Authorization"].text = "Bearer"

\* C24: whenever authApi.logout completes, access token, refresh token and
\* cached user are all absent from the store, whether its post succeeded,
\* was answered with an error status, failed at the transport or was
\* skipped for want of a refresh token.
LocalLogoutGuaranteed_C24 ==
    [][(~LogoutDone /\ LogoutDone') => storage' = EmptyStore]_vars

\* A logout whose post failed at the transport has completed, while a call
\* is still in flight, and the store is empty.
Witness_C24 ==
    /\ logout = "unreachable"
    /\ storage = EmptyStore
    /\ \E c \in Calls : pc[c] \notin {"init", "done"}

\* C25: whenever isRefreshing is false the waiter queue is empty.
IdleQueueEmpty_C25 == ~isRefreshing => refreshQueue = <<>>

\* C26: once logout has cleared the store it holds no access token (there is
\* no login in this session): no step of a call or refresh already in
\* progress writes one afterwards.
NoTokenAfterLogout_C26 == LogoutDone => storage.access = NoToken

\* C27: the refresh endpoint is called only with a refresh token that is in
\* the store at the time of the call: a 401 that starts a cycle while the
\* store has none makes no call to the endpoint, and the leader's call ends
\* with the error, its request sent once.
RefreshOnlyWithToken_C27 ==
    [][\A c \in Calls :
          /\ (Len(cycles') = Len(cycles) + 1 /\ cycles'[Len(cycles')].leader = c) =>
                IF storage.refresh # NoToken
                THEN cycles'[Len(cycles')].posts = 1 /\ pc'[c] = "refreshing"
                ELSE cycles'[Len(cycles')].posts = 0 /\ pc'[c] = "threwNoToken"
          /\ (pc[c] = "threwNoToken" /\ pc'[c] # pc[c]) =>
                /\ pc'[c] = "done"
                /\ result'[c].kind = "ErrorNoRefreshToken"
                /\ sent'[c] = sent[c] /\ Len(sent[c]) = 1
                /\ cycles'[joined[c]].posts = 0]_vars

\* A cycle started without a refresh token has ended with no call to the
\* endpoint and the leader's call rejected, after an earlier cycle that had
\* a refresh token and did call it.
Witness_C27 ==
    \E k1, k2 \in DOMAIN cycles :
        /\ k1 < k2
        /\ cycles[k1].hadRefresh /\ cycles[k1].posts = 1
        /\ ~cycles[k2].hadRefresh /\ cycles[k2].posts = 0 /\ cycles[k2].ended
        /\ result[cycles[k2].leader].kind = "ErrorNoRefreshToken"

\* C28: when the refresh call fails at the transport, the store is left as
\* it was, there is no redirect to /login, isRefreshing is reset to false and
\* the leader's call rejects without resending its request.
TransportFailureKeepsSession_C28 ==
    [][\A c \in Calls :
          /\ (pc[c] = "refreshing" /\ pc'[c] = "threwNetwork") =>
                /\ storage' = storage
                /\ cycles'[Cur].clears = 0 /\ cycles'[Cur].redirects = 0
          /\ (pc[c] = "threwNetwork" /\ pc'[c] # pc[c]) =>
                /\ pc'[c] = "done"
                /\ result'[c].kind = "TypeError"
                /\ storage' = storage
                /\ ~isRefreshing'
                /\ sent'[c] = sent[c] /\ Len(sent[c]) = 1
                /\ cycles'[Cur].clears = 0 /\ cycles'[Cur].redirects = 0]_vars

\* A cycle whose refresh failed at the transport has ended: the store still
\* holds both tokens, the flag is false and the leader sent once.
Witness_C28 ==
    \E k \in DOMAIN cycles :
        /\ cycles[k].outcome = "transport" /\ cycles[k].ended
        /\ k = Cur /\ ~isRefreshing
        /\ storage = LoggedIn
        /\ Len(sent[cycles[k].leader]) = 1
        /\ result[cycles[k].leader].kind = "TypeError"

\* C29: AuthProvider.login always returns a result: when the login request
\* or the profile fetch after it fails, the store is cleared, the result is
\* success: false and isLoading is false; after login has returned, tokens
\* are in the store only if it returned success: true.
NoHalfSession_C29 ==
    auth.pc = "returned" =>
        /\ ~auth.isLoading
        /\ auth.failed # "none" => (~auth.success /\ storage = EmptyStore)
        /\ (storage.access # NoToken \/ storage.refresh # NoToken) => auth.success

\* A second login, made after a successful one, failed at the profile fetch
\* with a 500: the tokens the login request had stored are gone.
Witness_C29 ==
    /\ auth.pc = "returned"
    /\ auth.calls = 2
    /\ auth.failed = "profile"
    /\ auth.message = "err.userMessage"
    /\ auth.user # "none"
    /\ storage = EmptyStore

\* C30: when a fetch is started while an earlier one is in flight, the data
\* and error the hook finally holds are those of the most recently started
\* fetch, whatever the order of the responses; and after the component has
\* unmounted no fetch result changes data, error or loading.
Settled(h) == h.fetches # <<>> /\ \A i \in DOMAIN h.fetches : h.fetches[i] # "inflight"

LatestFetchWins_C30 ==
    [][/\ (~hook'.unmounted /\ Settled(hook')) =>
              LET n == Len(hook'.fetches)
              IN  IF hook'.fetches[n] = "ok"
                  THEN hook'.data = n /\ hook'.error = 0
                  ELSE hook'.error = n
       /\ hook.unmounted =>
              /\ hook'.data = hook.data
              /\ hook'.error = hook.error
              /\ hook'.loading = hook.loading]_vars

=============================================================================
